---- MODULE Spec2Model ----
(***************************************************************************)
(* Model of pipeline.py: the six paginating resource generators            *)
(* (jaffle_shop_source_naive / jaffle_shop_source_optimized) and the       *)
(* driver run_performance_comparison that runs the naive pipeline and      *)
(* then the optimized pipeline.                                            *)
(*                                                                         *)
(* The HTTP API is the environment.  A response body is a Python dict,     *)
(* modelled as a TLA+ record whose DOMAIN is the set of keys present.      *)
(* Records of a table are numbered 1, 2, 3, ...                            *)
(***************************************************************************)
EXTENDS Integers, Sequences, FiniteSets, TLC

\* ---------------------------------------------------------------- bounds
\* Full pages a source holds (SpecSrc).
MaxPages == 1
\* Largest page-size cap the server enforces below the requested limit.
MaxCap == 2
\* Records per page of the unconstrained server (Spec).
MaxPageLen == 2
\* Largest total_pages the unconstrained server declares (Spec).
MaxTotal == 3
\* Records per table in the whole-run specification (SpecRun).
MaxRunRecs == 2

\* ------------------------------------------------------ program constants
\* params={"page": page, "limit": 100}
NaiveLimit == 100
\* params={"page": page, "limit": 1000}
OptLimit == 1000

Versions == {"naive", "optimized"}

Resources == {"customers", "orders", "products"}

\* One generator function per (version, resource).
Extractors == Versions \X Resources

LimitOf(e) == IF e[1] = "naive" THEN NaiveLimit ELSE OptLimit

PathOf(e) ==
    CASE e[2] = "customers" -> "/customers"
      [] e[2] = "orders" -> "/orders"
      [] OTHER -> "/products"

Min(a, b) == IF a < b THEN a ELSE b

Ceil(a, b) == (a + b - 1) \div b

\* ------------------------------------------------------- dict operations
\* d.get(key, default)
DictGet(d, key, default) == IF key \in DOMAIN d THEN d[key] ELSE default

\* `not data.get("data")`: the key is missing (None) or the list is empty.
NotData(d) == Len(DictGet(d, "data", <<>>)) = 0

\* The default of data.get("total_pages", 1)
DefaultTotalPages == 1

\* Variant: the default taken as 2.
TotalPagesAlt(d) == DictGet(d, "total_pages", 2)

\* data.get("total_pages", 1)
TotalPages(d) == DictGet(d, "total_pages", DefaultTotalPages)

\* Variant: the loop runs one page past the declared total.
PastLastPageAlt(pg, d) == pg > TotalPages(d) + 1

\* Variant: the loop stops one page short of the declared total.
PastLastPageShort(pg, d) == pg >= TotalPages(d)

\* `if page > data.get("total_pages", 1): break`
PastLastPage(pg, d) == pg > TotalPages(d)

\* The records a response carries ([] when it has none).
DataOf(d) == DictGet(d, "data", <<>>)

RECURSIVE Flatten(_)
Flatten(ss) == IF Len(ss) = 0 THEN <<>> ELSE Head(ss) \o Flatten(Tail(ss))

RECURSIVE ConcatData(_)
ConcatData(resps) ==
    IF Len(resps) = 0 THEN <<>> ELSE DataOf(Head(resps)) \o ConcatData(Tail(resps))

\* ----------------------------------------------------------- environment
\* A table of n records served in pages of Min(limit, cap) records, every
\* response declaring the true number of pages.
Source(n, cap) == [kind |-> "source", n |-> n, cap |-> cap]

\* An API free to answer anything: any number of records per page, any
\* total_pages, either key missing.
AnyServer == [kind |-> "any", n |-> 0, cap |-> 1]

PageSize(src, limit) == Min(limit, src.cap)

SourcePage(src, pg, limit) ==
    LET P == PageSize(src, limit)
        lo == (pg - 1) * P
        hi == Min(pg * P, src.n)
        len == IF hi > lo THEN hi - lo ELSE 0
    IN  [data |-> [i \in 1..len |-> lo + i], total_pages |-> Ceil(src.n, P)]

Fresh(base, len) == [i \in 1..len |-> base + i]

\* Page lengths of the unconstrained server: empty, one record, a full page.
PageLens == {0, 1, MaxPageLen}

AnyResponses(base) ==
    {[data |-> Fresh(base, len), total_pages |-> t] : len \in PageLens, t \in 0..MaxTotal}
        \cup {[data |-> Fresh(base, len)] : len \in PageLens}
        \cup {[total_pages |-> t] : t \in 0..MaxTotal}

VARIABLES
    phase,      \* position of run_performance_comparison
    server,     \* per extractor, the API behind its endpoint while it runs
    pc,         \* per extractor, the generator's position
    page,       \* per extractor, local `page`
    data,       \* per extractor, local `data` (the last response.json())
    idx,        \* per naive extractor, position of `for item in data["data"]`
    requests,   \* per extractor, the client.get calls issued so far
    served,     \* per extractor, the responses received so far
    emitted,    \* per extractor, the values yielded so far
    first,      \* resource whose yield reached the running pipeline first
    last        \* resource whose yield reached the running pipeline last

vars == <<phase, server, pc, page, data, idx, requests, served, emitted, first, last>>

\* The rows a pipeline loads from what an extractor yielded: a yielded list
\* is a batch of rows, a yielded dict is one row.
Rows(e) == IF e[1] = "naive" THEN emitted[e] ELSE Flatten(emitted[e])

Responses(e) ==
    IF server[e].kind = "source"
    THEN {SourcePage(server[e], page[e], LimitOf(e))}
    ELSE AnyResponses(Len(ConcatData(served[e])))

\* The generators as created: `page = 1`, the loop about to issue its first
\* client.get; `data` is not bound yet.
InitWith(srv) ==
    /\ phase = "naive"
    /\ server = srv
    /\ pc = [e \in Extractors |-> "fetch"]
    /\ page = [e \in Extractors |-> 1]
    /\ data = [e \in Extractors |-> [total_pages |-> 0]]
    /\ idx = [e \in Extractors |-> 0]
    /\ requests = [e \in Extractors |-> <<>>]
    /\ served = [e \in Extractors |-> <<>>]
    /\ emitted = [e \in Extractors |-> <<>>]
    /\ first = "none"
    /\ last = "none"

\* The tables are empty but one, whose API is unconstrained while one of the
\* two pipelines reads it.
Init ==
    \E e \in Extractors :
        InitWith([f \in Extractors |-> IF f = e THEN AnyServer ELSE Source(0, 1)])

\* pipeline.run iterates the generators of the pipeline it runs.
Scheduled(e) == phase = e[1]

\* Variant: `page` shared by the generators of one source function.
OwnsAlt(e, f) == e[1] = f[1]

\* The page counter an extractor's `page += 1` writes: its own local.

Owns(e, f) == e = f

\* client.get(path, params={"page": page, "limit": limit}) is sent
Request(e) ==
    /\ Scheduled(e)
    /\ pc[e] = "fetch"
    /\ requests' = [requests EXCEPT
            ![e] = Append(@, [path |-> PathOf(e), page |-> page[e], limit |-> LimitOf(e)])]
    /\ pc' = [pc EXCEPT ![e] = "await"]
    /\ UNCHANGED <<phase, server, page, data, idx, served, emitted, first, last>>

\* data = response.json(); if not data.get("data"): break
Respond(e) ==
    /\ Scheduled(e)
    /\ pc[e] = "await"
    /\ \E resp \in Responses(e) :
        /\ served' = [served EXCEPT ![e] = Append(@, resp)]
        /\ data' = [data EXCEPT ![e] = resp]
        /\ pc' = [pc EXCEPT ![e] = IF NotData(resp) THEN "done" ELSE "yield"]
        /\ idx' = [idx EXCEPT ![e] = IF NotData(resp) THEN @ ELSE 1]
    /\ UNCHANGED <<phase, server, page, requests, emitted, first, last>>

\* client.get raises: nothing in the generator, in pipeline.run's caller or
\* in main handles it, so the exception leaves run_performance_comparison.
Raise(e) ==
    /\ Scheduled(e)
    /\ pc[e] = "await"
    /\ pc' = [pc EXCEPT ![e] = "raised"]
    /\ phase' = "raised"
    /\ UNCHANGED <<server, page, data, idx, requests, served, emitted, first, last>>

\* Variant: only the first item of a page is handed over.
YieldedAlt(e) == IF e[1] = "naive" THEN data[e].data[1] ELSE <<data[e].data[1]>>

\* What one `yield` hands over: one item (naive) or the whole page (optimized).

Yielded(e) == IF e[1] = "naive" THEN data[e].data[idx[e]] ELSE data[e].data

\* Variant: the item loop ends one item early.
MoreItemsAlt(e) == e[1] = "naive" /\ idx[e] + 1 < Len(data[e].data)

\* Whether the `for item in data["data"]` loop has more items after this one.

MoreItems(e) == e[1] = "naive" /\ idx[e] < Len(data[e].data)

\* for item in data["data"]: yield item      /     yield data["data"]
Yield(e) ==
    /\ Scheduled(e)
    /\ pc[e] = "yield"
    /\ emitted' = [emitted EXCEPT ![e] = Append(@, Yielded(e))]
    /\ IF MoreItems(e)
       THEN idx' = [idx EXCEPT ![e] = @ + 1] /\ pc' = pc
       ELSE idx' = idx /\ pc' = [pc EXCEPT ![e] = "advance"]
    /\ first' = IF first = "none" THEN e[2] ELSE first
    /\ last' = e[2]
    /\ UNCHANGED <<phase, server, page, data, requests, served>>

\* Variant: the increment is lost.
NextPageAlt(pg) == pg

\* page += 1

NextPage(pg) == pg + 1

\* page += 1; if page > data.get("total_pages", 1): break
Advance(e) ==
    /\ Scheduled(e)
    /\ pc[e] = "advance"
    /\ page' = [f \in Extractors |-> IF Owns(e, f) THEN NextPage(page[f]) ELSE page[f]]
    /\ pc' = [pc EXCEPT ![e] = IF PastLastPage(NextPage(page[e]), data[e]) THEN "done" ELSE "fetch"]
    /\ UNCHANGED <<phase, server, data, idx, requests, served, emitted, first, last>>

AllDone(v) == \A r \in Resources : pc[<<v, r>>] = "done"

\* pipeline_naive.run(source_naive) returned; pipeline_optimized.run starts
NextPipeline ==
    /\ phase = "naive"
    /\ AllDone("naive")
    /\ phase' = "optimized"
    /\ first' = "none"
    /\ last' = "none"
    /\ UNCHANGED <<server, pc, page, data, idx, requests, served, emitted>>

\* pipeline_optimized.run(source_optimized) returned; the report is printed
Finish ==
    /\ phase = "optimized"
    /\ AllDone("optimized")
    /\ phase' = "returned"
    /\ UNCHANGED <<server, pc, page, data, idx, requests, served, emitted, first, last>>

Next ==
    \/ \E e \in Extractors : Request(e)
    \/ \E e \in Extractors : Respond(e)
    \/ \E e \in Extractors : Raise(e)
    \/ \E e \in Extractors : Yield(e)
    \/ \E e \in Extractors : Advance(e)
    \/ NextPipeline
    \/ Finish

Spec == Init /\ [][Next]_vars

\* The page sizes a source can be cut into: the two requested limits, and
\* the caps a server may enforce below them.
Caps == (1..MaxCap) \cup {OptLimit}

PartialSizes(P) == {m \in {0, 1} : m < P}

\* Both pipelines against the same tables; one table holds K full pages and
\* a partial page of M records, the other two are empty.
InitSrc ==
    \E r \in Resources, cap \in Caps, v \in Versions, K \in 0..MaxPages :
        LET P == Min(IF v = "naive" THEN NaiveLimit ELSE OptLimit, cap)
        IN  \E M \in PartialSizes(P) :
                InitWith([f \in Extractors |->
                            IF f[2] = r THEN Source(K * P + M, cap) ELSE Source(0, cap)])

SpecSrc == InitSrc /\ [][Next]_vars

\* Both pipelines against the same three small tables.
InitRun ==
    \E ns \in [Resources -> 0..MaxRunRecs], cap \in 1..MaxCap :
        InitWith([f \in Extractors |-> Source(ns[f[2]], cap)])

SpecRun == InitRun /\ [][Next]_vars


\* ------------------------------------------------------------ the claims

NaiveOf(r) == <<"naive", r>>

OptOf(r) == <<"optimized", r>>

Max(a, b) == IF a > b THEN a ELSE b

IsPrefix(s, t) == Len(s) <= Len(t) /\ SubSeq(t, 1, Len(s)) = s

\* The total a response declares, one without the key counting as 1.
Declared(d) == IF "total_pages" \in DOMAIN d THEN d["total_pages"] ELSE 1

RECURSIVE MaxDeclared(_)
MaxDeclared(resps) ==
    IF Len(resps) = 0 THEN 0 ELSE Max(Declared(Head(resps)), MaxDeclared(Tail(resps)))

\* The number of values one yield of e carries when pages hold P records.
BatchSize(e, P) == IF e[1] = "naive" THEN 1 ELSE P

\* Records of the page in hand that the loop has not yielded yet.
Pending(e) ==
    IF pc[e] # "yield" THEN <<>>
    ELSE IF e[1] = "naive" THEN SubSeq(data[e].data, idx[e], Len(data[e].data))
    ELSE data[e].data

PagesBatchesRecords(e, pages) ==
    LET src == server[e]
        P == PageSize(src, LimitOf(e))
    IN  /\ Len(requests[e]) = pages
        /\ Len(emitted[e]) = Ceil(src.n, BatchSize(e, P))
        /\ Len(Rows(e)) = src.n

\* C1 as stated: against a source of K full pages of P records and a partial
\* page of M < P records, a finished extractor has issued K+1 requests (K
\* when M = 0), emitted ceil((K*P+M)/batchSize) batches and K*P+M records.
C1_Original ==
    \A e \in Extractors :
        pc[e] = "done" =>
            LET P == PageSize(server[e], LimitOf(e))
                K == server[e].n \div P
                M == server[e].n % P
            IN  PagesBatchesRecords(e, IF M = 0 THEN K ELSE K + 1)

\* C1 amended: as C1, except that an empty source (K = 0, M = 0) still costs
\* the one request that finds it empty: the requests are K+1 when M > 0 and
\* max(K, 1) when M = 0.
C1_PagesBatchesRecords ==
    \A e \in Extractors :
        pc[e] = "done" =>
            LET P == PageSize(server[e], LimitOf(e))
                K == server[e].n \div P
                M == server[e].n % P
            IN  PagesBatchesRecords(e, IF M = 0 THEN Max(K, 1) ELSE K + 1)

\* A naive and an optimized extractor have both finished a table of at
\* least one full page of the requested limit and a partial page.
C1_Witness ==
    \E r \in Resources :
        /\ pc[NaiveOf(r)] = "done" /\ pc[OptOf(r)] = "done"
        /\ server[OptOf(r)].cap >= OptLimit
        /\ server[OptOf(r)].n > OptLimit
        /\ server[OptOf(r)].n % OptLimit > 0
        /\ Len(requests[OptOf(r)]) = 2
        /\ Len(requests[NaiveOf(r)]) = 11

\* C2: either end signal alone stops the loop.  A response without records
\* ends it whatever total_pages it declares; a next page number above the
\* declared total ends it although the page held records; and once the loop
\* has ended no further request is issued.
C2_EitherSignalStops ==
    [][\A e \in Extractors :
        /\ (Len(served'[e]) > Len(served[e]) /\ Len(DataOf(data'[e])) = 0) => pc'[e] = "done"
        /\ (pc[e] = "advance" /\ pc'[e] # "advance" /\ page[e] + 1 > Declared(data[e]))
                => pc'[e] = "done"
        /\ pc[e] = "done" => (pc'[e] = "done" /\ requests'[e] = requests[e])]_vars

\* The loop has ended on an empty second page that declares more pages than
\* were requested.
C2_Witness ==
    \E e \in Extractors :
        /\ pc[e] = "done"
        /\ Len(served[e]) = 2
        /\ Len(requests[e]) = 2
        /\ Len(DataOf(served[e][2])) = 0
        /\ Declared(served[e][2]) > 2

\* C3: what an extractor has emitted, in emission order, followed by the
\* records of the page in hand it has yet to yield, is the concatenation of
\* the record arrays of the pages it fetched, in fetch order; when it has
\* finished, the emitted records are exactly the fetched ones.
C3_EmittedIsFetched ==
    \A e \in Extractors :
        /\ Rows(e) \o Pending(e) = ConcatData(served[e])
        /\ pc[e] = "done" => Rows(e) = ConcatData(served[e])

\* An extractor has finished after a page of two records and a final page
\* of one record.
C3_Witness ==
    \E e \in Extractors :
        /\ pc[e] = "done"
        /\ Len(served[e]) = 2
        /\ Len(DataOf(served[e][1])) = 2
        /\ Len(DataOf(served[e][2])) = 1
        /\ Rows(e) = <<1, 2, 3>>

\* C4: within a resource the requests carry the page numbers 1, 2, 3, ...,
\* request k+1 is issued only after response k was received and the records
\* of page k were emitted, and the batches are emitted in page order.
C4_SequentialPages ==
    \A e \in Extractors :
        /\ \A i \in 1..Len(requests[e]) : requests[e][i].page = i
        /\ Len(served[e]) <= Len(requests[e])
        /\ Len(requests[e]) <= Len(served[e]) + 1
        /\ Len(requests[e]) = Len(served[e]) + 1 => Rows(e) = ConcatData(served[e])
        /\ IsPrefix(Rows(e), ConcatData(served[e]))
        /\ e[1] = "optimized" =>
                \A j \in 1..Len(emitted[e]) : emitted[e][j] = DataOf(served[e][j])

\* No order between resources: a batch of orders reached the optimized
\* pipeline between the first and the second batch of customers.
C4_Witness ==
    /\ phase = "optimized"
    /\ first = "customers"
    /\ last = "customers"
    /\ Len(emitted[OptOf("customers")]) = 2
    /\ Len(requests[OptOf("customers")]) = 2
    /\ Len(emitted[OptOf("orders")]) = 1
    /\ Len(emitted[OptOf("products")]) = 0

\* The concrete scenario of the specification's testable properties, as far
\* as the generators go (they keep no cursor): a table of three records
\* served in pages of two, [1, 2] then [3], costs two requests and yields
\* the three records in order.
Scenario_TwoPagesThreeRecords ==
    \A e \in Extractors :
        (pc[e] = "done" /\ server[e].n = 3 /\ PageSize(server[e], LimitOf(e)) = 2) =>
            /\ Len(requests[e]) = 2
            /\ Rows(e) = <<1, 2, 3>>

Scenario_Reached ==
    \E e \in Extractors :
        pc[e] = "done" /\ server[e].n = 3 /\ PageSize(server[e], LimitOf(e)) = 2

\* C6: when the naive and the optimized extractor of a resource have both
\* finished the same table, the optimized batches flattened are the naive
\* row stream, and so the two record counts agree.
C6_SameRecords ==
    \A r \in Resources :
        (pc[NaiveOf(r)] = "done" /\ pc[OptOf(r)] = "done") =>
            /\ Flatten(emitted[OptOf(r)]) = emitted[NaiveOf(r)]
            /\ Len(Rows(OptOf(r))) = Len(Rows(NaiveOf(r)))

\* The run has returned after the two versions paged the same table
\* differently: eleven naive pages of 100, two optimized pages of 1000.
C6_Witness ==
    /\ phase = "returned"
    /\ \E r \in Resources :
        /\ Len(requests[NaiveOf(r)]) = 11
        /\ Len(emitted[NaiveOf(r)]) = 1001
        /\ Len(requests[OptOf(r)]) = 2
        /\ Len(emitted[OptOf(r)]) = 2

\* C7 as stated: a fetch that raises does not make the run raise; the run
\* ends reporting a result, and every other extractor has finished.
C7_FailureIsolated ==
    (\E e \in Extractors : pc[e] = "raised") =>
        /\ phase # "raised"
        /\ phase = "returned" => \A e \in Extractors : pc[e] \in {"done", "raised"}

\* The generator loop of e run alone, to its end, against the table src:
\* the requests it issues and the values it yields.
RECURSIVE RunAlone(_, _, _, _)
RunAlone(e, src, pg, acc) ==
    LET resp == SourcePage(src, pg, LimitOf(e))
        reqs == Append(acc.requests, [path |-> PathOf(e), page |-> pg, limit |-> LimitOf(e)])
        out == IF e[1] = "naive" THEN acc.emitted \o resp.data
               ELSE Append(acc.emitted, resp.data)
    IN  IF NotData(resp) THEN [requests |-> reqs, emitted |-> acc.emitted]
        ELSE IF PastLastPage(pg + 1, resp) THEN [requests |-> reqs, emitted |-> out]
        ELSE RunAlone(e, src, pg + 1, [requests |-> reqs, emitted |-> out])

Alone(e) == RunAlone(e, server[e], 1, [requests |-> <<>>, emitted |-> <<>>])

\* C9: however the steps of the three optimized extractors interleave, the
\* requests and the batches of each are those of that extractor run alone:
\* a prefix of them while it runs, all of them when it has finished.
C9_AsWhenAlone ==
    \A r \in Resources :
        LET e == OptOf(r)
        IN  /\ IsPrefix(requests[e], Alone(e).requests)
            /\ IsPrefix(emitted[e], Alone(e).emitted)
            /\ pc[e] = "done" =>
                    (requests[e] = Alone(e).requests /\ emitted[e] = Alone(e).emitted)

\* The three optimized extractors are in flight at once, at different pages
\* and at different steps of their loops.
C9_Witness ==
    /\ phase = "optimized"
    /\ pc[OptOf("customers")] = "await" /\ page[OptOf("customers")] = 2
    /\ pc[OptOf("orders")] = "yield" /\ page[OptOf("orders")] = 1
    /\ pc[OptOf("products")] = "advance" /\ page[OptOf("products")] = 1
    /\ last = "products"

\* C10: page 1 is always requested; request n >= 2 is issued only after a
\* response n-1 that held records and declared total_pages >= n (1 when the
\* key is missing); no emitted batch is empty; and the requests never
\* exceed max(1, the largest total_pages declared in the run).
C10_RequestsBounded ==
    \A e \in Extractors :
        /\ pc[e] # "fetch" => Len(requests[e]) >= 1
        /\ Len(requests[e]) >= 1 => requests[e][1].page = 1
        /\ \A n \in 2..Len(requests[e]) :
                /\ Len(DataOf(served[e][n - 1])) > 0
                /\ Declared(served[e][n - 1]) >= n
        /\ e[1] = "optimized" => \A j \in 1..Len(emitted[e]) : Len(emitted[e][j]) > 0
        /\ Len(Rows(e)) >= Len(emitted[e])
        /\ Len(requests[e]) <= Max(1, MaxDeclared(served[e]))

\* A third request was issued, and its response, which held records and no
\* total_pages key, ended the loop.
C10_Witness ==
    \E e \in Extractors :
        /\ pc[e] = "done"
        /\ Len(requests[e]) = 3
        /\ Len(DataOf(served[e][3])) > 0
        /\ "total_pages" \notin DOMAIN served[e][3]

====
